---- MODULE Spec2Model ----
(***************************************************************************)
(* Model of process_repository_errors.py: a straight-line script that      *)
(* checks its configuration, derives a date window from a log filename,    *)
(* runs one remote grep over SSH, scans the returned lines for resource    *)
(* paths paired with error lines, removes duplicates and prints an email   *)
(* draft.  Every variable is a variable of the script (or the process's    *)
(* position and standard output); every action is one block of the script. *)
(***************************************************************************)
EXTENDS Integers, Sequences, FiniteSets, TLC

VARIABLES
    pc,             \* position of the script
    env,            \* the two environment variables read at line 19
    host,           \* line 19
    ssh_params,     \* lines 27-35
    today_date,     \* line 38, datetime.date.today()
    formatted_date, \* line 39
    log_filename,   \* line 44
    yesterday,      \* lines 51 / 55
    today,          \* lines 52 / 56
    grep_command,   \* line 60
    ssh,            \* the name `ssh`: unbound, created, connected or closed
    output,         \* line 70, as the list output.splitlines() iterates
    errors,         \* line 71
    exiting,        \* a SystemExit raised inside the try block is in flight
    idx,            \* position of the for loop of line 93
    last_repo,      \* lines 90, 97, 112
    last_resource,  \* lines 91, 98, 113
    resources,      \* lines 89, 107, 116
    email_subject,  \* line 123
    email_body,     \* lines 124-140, as its lines
    printed,        \* standard output, one entry per printed line
    connects,       \* number of calls of ssh.connect
    execs,          \* number of calls of ssh.exec_command
    exitAt          \* which exit() or uncaught exception ended the run

vars == <<pc, env, host, ssh_params, today_date, formatted_date, log_filename,
          yesterday, today, grep_command, ssh, output, errors, exiting, idx,
          last_repo, last_resource, resources, email_subject, email_body,
          printed, connects, execs, exitAt>>

\* The value None of the remembered ids; a matched id is never negative.
None == -1

\* os.getenv of a variable that is not set
Unset == "<unset>"

\* Longest retrieved text (in lines) the scan is explored on.
MaxLines == 3
\* Longest retrieved text (in lines) in the runs of the whole script.
MaxRunLines == 2

-----------------------------------------------------------------------------
(* Calendar arithmetic of datetime.date, as the library computes it.       *)

\* the rule of the Julian calendar: every fourth year
_is_leap_julian(year) == year % 4 = 0

_is_leap(year) == year % 4 = 0 /\ (year % 100 # 0 \/ year % 400 = 0)

_DAYS_IN_MONTH == <<31, 28, 31, 30, 31, 30, 31, 31, 30, 31, 30, 31>>

_days_in_month(year, month) ==
    IF month = 2 /\ _is_leap(year) THEN 29 ELSE _DAYS_IN_MONTH[month]

_DAYS_BEFORE_MONTH == <<0, 31, 59, 90, 120, 151, 181, 212, 243, 273, 304, 334>>

_days_before_year(year) ==
    LET y == year - 1 IN y * 365 + y \div 4 - y \div 100 + y \div 400

_days_before_month(year, month) ==
    _DAYS_BEFORE_MONTH[month] + (IF month > 2 /\ _is_leap(year) THEN 1 ELSE 0)

\* date.toordinal(): 0001-01-01 is day 1
toordinal(date) ==
    _days_before_year(date[1]) + _days_before_month(date[1], date[2]) + date[3]

\* date.fromordinal()
fromordinal(ordinal) ==
    LET n0   == ordinal - 1
        n400 == n0 \div 146097
        r400 == n0 % 146097
        n100 == r400 \div 36524
        r100 == r400 % 36524
        n4   == r100 \div 1461
        r4   == r100 % 1461
        n1   == r4 \div 365
        n    == r4 % 365
        year == n400 * 400 + 1 + n100 * 100 + n4 * 4 + n1
    IN  IF n1 = 4 \/ n100 = 4
        THEN <<year - 1, 12, 31>>
        ELSE LET leapyear == n1 = 3 /\ (n4 # 24 \/ n100 = 3)
                 leapadd(m) == IF m > 2 /\ leapyear THEN 1 ELSE 0
                 month0 == (n + 50) \div 32
                 preceding0 == _DAYS_BEFORE_MONTH[month0] + leapadd(month0)
                 month == IF preceding0 > n THEN month0 - 1 ELSE month0
                 preceding == _DAYS_BEFORE_MONTH[month] + leapadd(month)
             IN  <<year, month, n - preceding + 1>>

\* date - datetime.timedelta(days=1)
MinusOneDay(date) == fromordinal(toordinal(date) - 1)

Pad2(n) == IF n < 10 THEN "0" \o ToString(n) ELSE ToString(n)

Pad4(n) ==
    IF n < 10 THEN "000" \o ToString(n)
    ELSE IF n < 100 THEN "00" \o ToString(n)
    ELSE IF n < 1000 THEN "0" \o ToString(n)
    ELSE ToString(n)

\* strftime("%Y-%m-%d")
strftime_ymd(date) == Pad4(date[1]) \o "-" \o Pad2(date[2]) \o "-" \o Pad2(date[3])

DayNames == <<"Monday", "Tuesday", "Wednesday", "Thursday", "Friday",
              "Saturday", "Sunday">>

MonthNames == <<"January", "February", "March", "April", "May", "June", "July",
                "August", "September", "October", "November", "December">>

\* strftime("%A %B %d, %Y")
strftime_long(date) ==
    DayNames[((toordinal(date) + 6) % 7) + 1] \o " " \o MonthNames[date[2]]
        \o " " \o Pad2(date[3]) \o ", " \o Pad4(date[1])

\* strptime(log_date, "%Y-%m-%d") accepts the digits matched by the regular
\* expression only when they name a calendar day; otherwise it raises.
strptime_ok(digits) ==
    /\ digits[1] >= 1
    /\ digits[2] \in 1..12
    /\ digits[3] >= 1
    /\ digits[3] <= _days_in_month(digits[1], digits[2])

-----------------------------------------------------------------------------
(* Log filenames.  A filename is its text around the first run of digits   *)
(* matching \d{4}-\d{2}-\d{2}, and that run as three numbers (NoDate when  *)
(* the regular expression of line 47 finds nothing).                       *)

NoDate == <<>>

FileName(stem, digits) == [stem |-> stem, digits |-> digits]

FileNameText(f) ==
    IF f.digits = NoDate THEN f.stem ELSE f.stem \o strftime_ymd(f.digits)

\* re.search(r"(\d{4}-\d{2}-\d{2})", log_filename)
date_match(f) == f.digits # NoDate

default_log_filename(date) == FileName("exporter_app.out-", date)

-----------------------------------------------------------------------------
(* Retrieved lines.  A line is the resource paths it contains, left to     *)
(* right, and which of the words the scan tests for it contains.           *)

Words == {"ERROR", "XML cleaning failed", "SolrIndexerError", "Validation error"}

Paths == {<<2, 100>>, <<2, 101>>}

WordSets == {{}, {"ERROR"}, {"Validation error"},
             {"ERROR", "XML cleaning failed"},
             {"ERROR", "SolrIndexerError"},
             {"ERROR", "Validation error"}}

Lines ==
    [uris : {<<>>} \cup {<<p>> : p \in Paths}, words : WordSets]
        \cup {[uris |-> <<<<2, 100>>, <<2, 101>>>>, words |-> {}]}

RECURSIVE Texts(_)
Texts(n) ==
    IF n = 0 THEN {<<>>}
    ELSE LET shorter == Texts(n - 1)
         IN  shorter \cup {Append(t, l) : t \in {s \in shorter : Len(s) = n - 1},
                                           l \in Lines}

\* re.search(r"/repositories/(\d+)/resources/(\d+)", line): the first match
NoMatch == <<>>

\* the last match instead of the first
uri_match_last(line) ==
    IF line.uris = <<>> THEN NoMatch ELSE line.uris[Len(line.uris)]

uri_match(line) == IF line.uris = <<>> THEN NoMatch ELSE Head(line.uris)

\* a marker alone, whatever the level of the line
IsErrorLine_AnyLevel(line) ==
    \/ "XML cleaning failed" \in line.words
    \/ "SolrIndexerError" \in line.words
    \/ "Validation error" \in line.words

\* the condition of lines 101-105
IsErrorLine(line) ==
    /\ "ERROR" \in line.words
    /\ \/ "XML cleaning failed" \in line.words
       \/ "SolrIndexerError" \in line.words
       \/ "Validation error" \in line.words

Resource(repo, res) == [RepositoryID |-> repo, ResourceID |-> res]

\* the remembered id dropped by a line without a path
RepoAfterMatch_Forget(line, repo) ==
    IF line.uris # <<>> THEN Head(line.uris)[1] ELSE None

\* the remembered ids after lines 95-98
RepoAfterMatch(line, repo) ==
    IF uri_match(line) # NoMatch THEN uri_match(line)[1] ELSE repo

ResourceAfterMatch(line, res) ==
    IF uri_match(line) # NoMatch THEN uri_match(line)[2] ELSE res

\* line 106
Remembered(repo, res) == repo # None /\ res # None

Range(s) == {s[i] : i \in 1..Len(s)}

\* the lists a set of distinct records can be iterated into (line 116): the
\* iteration order of a set of tuples holding strings follows their hashes,
\* which differ from one run of the interpreter to the next
Orderings(S) ==
    {s \in [1..Cardinality(S) -> S] : \A i, j \in 1..Cardinality(S) :
                                         i # j => s[i] # s[j]}

\* line 139
resource_url(resource) ==
    "https://archives.yale.edu/repositories/" \o ToString(resource.RepositoryID)
        \o "/resources/" \o ToString(resource.ResourceID)

\* lines 124-133, line by line
EmailHeader ==
    <<"Hello!",
      "",
      "Below you'll find a list of collections that encountered errors this morning during the export process. These errors were reported by the application that exports EAD to a Yale ArchivesSpace GitHub repository and generates the public-facing PDF finding aids.",
      "",
      "All best,  ",
      "[YOUR NAME]",
      "",
      "---",
      "">>

RECURSIVE UrlLines(_)
UrlLines(rs) ==
    IF rs = <<>> THEN <<>> ELSE <<resource_url(Head(rs))>> \o UrlLines(Tail(rs))

NoHostMsg == "Error: set EAD_SSH_HOST (recommended) or EAD_SERVER."
NoDateMsg == "Error: Could not determine date from filename. Using default date range."
GrepErrorMsg == "Error executing grep command: "
RetrievedBanner == "===== Retrieved Repository Errors ====="
NoErrorsMsg == "No repository errors found."
SSHFailedMsg == "SSH Connection Failed: "
PreviewBanner == "===== Email Preview ====="

-----------------------------------------------------------------------------
(* Inputs of a run.                                                        *)

EnvValues == {Unset, "", "ead.example.org"}

\* what the operator may type at the prompt of line 43 (already stripped);
\* NoInput is the empty answer
NoInput == FileName("", NoDate)

RunInputs ==
    {NoInput,
     FileName("exporter_app.out-", <<2024, 3, 10>>),
     FileName("exporter_app.out-", <<2024, 2, 30>>),
     FileName("exporter_app.out", NoDate)}

\* ~/.ssh/config: absent, or what cfg.lookup(host) returns (lookup always
\* gives a hostname)
NoFile == [exists |-> FALSE, hostname |-> Unset, user |-> Unset]

SSHConfigs ==
    {NoFile, [exists |-> TRUE, hostname |-> "10.0.0.5", user |-> "exporter"]}

\* what the remote command may write to its standard error
StderrTexts == {"", "grep: No such file or directory"}

\* what a failed connection or command may raise
Failures == {"Authentication failed.", "timed out"}

\* only the empty string taken as missing
Falsy_OnlyEmpty(v) == v = ""

\* os.getenv("EAD_SSH_HOST") or os.getenv("EAD_SERVER")
Falsy(v) == v = Unset \/ v = ""

HostOf(e) == IF ~Falsy(e.EAD_SSH_HOST) THEN e.EAD_SSH_HOST ELSE e.EAD_SERVER

\* the emptiness tests left out
Not_Never(list) == FALSE

\* `not output` (line 77) and `not resources` (line 118)
Not(list) == list = <<>>

\* what `grep -E "<y>|<t>T0[0-6]"` selects: a line whose timestamp is
\* stamp.date "T" stamp.hour contains <y>, or contains <t> followed by T0 and
\* one of the digits 0 to 6
Selects(y, t, stamp) ==
    \/ stamp.date = y
    \/ stamp.date = t /\ stamp.hour \in {"00", "01", "02", "03", "04", "05", "06"}

\* line 59
log_path(f) ==
    "/usr/local/src/archivesspace_export_service/exporter_app/logs/"
        \o FileNameText(f)

\* line 60
GrepCommand(y, t, f) ==
    "grep -E \"" \o y \o "|" \o t \o "T0[0-6]\" " \o log_path(f)

-----------------------------------------------------------------------------
(* The script, block by block.                                             *)

Start(dates) ==
    /\ pc = "check_host"
    /\ env \in [EAD_SSH_HOST : EnvValues, EAD_SERVER : EnvValues]
    /\ today_date \in dates
    /\ host = Unset
    /\ ssh_params = [hostname |-> Unset, username |-> Unset]
    /\ formatted_date = ""
    /\ log_filename = NoInput
    /\ yesterday = ""
    /\ today = ""
    /\ grep_command = ""
    /\ ssh = "unbound"
    /\ output = <<>>
    /\ errors = ""
    /\ exiting = FALSE
    /\ idx = 0
    /\ last_repo = None
    /\ last_resource = None
    /\ resources = <<>>
    /\ email_subject = ""
    /\ email_body = <<>>
    /\ printed = <<>>
    /\ connects = 0
    /\ execs = 0
    /\ exitAt = "running"

\* lines 19-22
CheckHost ==
    /\ pc = "check_host"
    /\ host' = HostOf(env)
    /\ IF Falsy(HostOf(env))
       THEN /\ printed' = Append(printed, NoHostMsg)
            /\ pc' = "done"
            /\ exitAt' = "no_host"
       ELSE /\ pc' = "config"
            /\ UNCHANGED <<printed, exitAt>>
    /\ UNCHANGED <<env, ssh_params, today_date, formatted_date, log_filename,
                   yesterday, today, grep_command, ssh, output, errors,
                   exiting, idx, last_repo, last_resource, resources,
                   email_subject, email_body, connects, execs>>

\* lines 25-35 (the port and the identity file are carried the same way as
\* the user name)
ReadSSHConfig ==
    /\ pc = "config"
    /\ \E hc \in SSHConfigs :
          ssh_params' = IF hc.exists
                        THEN [hostname |-> hc.hostname, username |-> hc.user]
                        ELSE [hostname |-> host, username |-> Unset]
    /\ pc' = "prompt"
    /\ UNCHANGED <<env, host, today_date, formatted_date, log_filename,
                   yesterday, today, grep_command, ssh, output, errors,
                   exiting, idx, last_repo, last_resource, resources,
                   email_subject, email_body, printed, connects, execs, exitAt>>

\* lines 38-44
Prompt(inputs) ==
    /\ pc = "prompt"
    /\ formatted_date' = strftime_long(today_date)
    /\ \E user_input \in inputs :
          log_filename' = IF user_input # NoInput THEN user_input
                          ELSE default_log_filename(today_date)
    /\ pc' = "derive"
    /\ UNCHANGED <<env, host, ssh_params, today_date, yesterday, today,
                   grep_command, ssh, output, errors, exiting, idx, last_repo,
                   last_resource, resources, email_subject, email_body,
                   printed, connects, execs, exitAt>>

\* lines 47-56; an uncaught ValueError of strptime ends the run
DeriveWindow ==
    /\ pc = "derive"
    /\ IF date_match(log_filename)
       THEN IF strptime_ok(log_filename.digits)
            THEN /\ yesterday' = strftime_ymd(MinusOneDay(log_filename.digits))
                 /\ today' = strftime_ymd(log_filename.digits)
                 /\ pc' = "build"
                 /\ UNCHANGED <<printed, exitAt>>
            ELSE /\ pc' = "done"
                 /\ exitAt' = "ValueError"
                 /\ UNCHANGED <<yesterday, today, printed>>
       ELSE /\ printed' = Append(printed, NoDateMsg)
            /\ yesterday' = strftime_ymd(MinusOneDay(today_date))
            /\ today' = strftime_ymd(today_date)
            /\ pc' = "build"
            /\ UNCHANGED exitAt
    /\ UNCHANGED <<env, host, ssh_params, today_date, formatted_date,
                   log_filename, grep_command, ssh, output, errors, exiting,
                   idx, last_repo, last_resource, resources, email_subject,
                   email_body, connects, execs>>

\* lines 59-60
BuildGrep ==
    /\ pc = "build"
    /\ grep_command' = GrepCommand(yesterday, today, log_filename)
    /\ pc' = "create"
    /\ UNCHANGED <<env, host, ssh_params, today_date, formatted_date,
                   log_filename, yesterday, today, ssh, output, errors,
                   exiting, idx, last_repo, last_resource, resources,
                   email_subject, email_body, printed, connects, execs, exitAt>>

\* lines 64-65; when the constructor raises, `ssh` stays unbound and the
\* handler of lines 81-83 runs
CreateClient ==
    /\ pc = "create"
    /\ \/ /\ ssh' = "created"
          /\ pc' = "connect"
          /\ UNCHANGED <<printed, exiting, exitAt>>
       \/ \E e \in Failures :
             /\ printed' = Append(printed, SSHFailedMsg \o e)
             /\ exiting' = TRUE
             /\ exitAt' = "ssh_failed"
             /\ pc' = "finally"
             /\ UNCHANGED ssh
    /\ UNCHANGED <<env, host, ssh_params, today_date, formatted_date,
                   log_filename, yesterday, today, grep_command, output,
                   errors, idx, last_repo, last_resource, resources,
                   email_subject, email_body, connects, execs>>

\* line 66, and lines 81-83 when it raises
Connect ==
    /\ pc = "connect"
    /\ connects' = connects + 1
    /\ \/ /\ ssh' = "connected"
          /\ pc' = "exec"
          /\ UNCHANGED <<printed, exiting, exitAt>>
       \/ \E e \in Failures :
             /\ printed' = Append(printed, SSHFailedMsg \o e)
             /\ exiting' = TRUE
             /\ exitAt' = "ssh_failed"
             /\ pc' = "finally"
             /\ UNCHANGED ssh
    /\ UNCHANGED <<env, host, ssh_params, today_date, formatted_date,
                   log_filename, yesterday, today, grep_command, output,
                   errors, idx, last_repo, last_resource, resources,
                   email_subject, email_body, execs>>

\* lines 68-71, and lines 81-83 when the command or a read raises
ExecCommand(texts) ==
    /\ pc = "exec"
    /\ execs' = execs + 1
    /\ \/ /\ output' \in texts
          /\ errors' \in StderrTexts
          /\ pc' = "report"
          /\ UNCHANGED <<printed, exiting, exitAt>>
       \/ \E e \in Failures :
             /\ printed' = Append(printed, SSHFailedMsg \o e)
             /\ exiting' = TRUE
             /\ exitAt' = "ssh_failed"
             /\ pc' = "finally"
             /\ UNCHANGED <<output, errors>>
    /\ UNCHANGED <<env, host, ssh_params, today_date, formatted_date,
                   log_filename, yesterday, today, grep_command, ssh, idx,
                   last_repo, last_resource, resources, email_subject,
                   email_body, connects>>

\* lines 73-79
Report ==
    /\ pc = "report"
    /\ LET shown == (IF errors # "" THEN <<GrepErrorMsg \o errors>> ELSE <<>>)
                        \o <<"", RetrievedBanner>>
       IN  IF Not(output)
           THEN /\ printed' = printed \o shown \o <<NoErrorsMsg>>
                /\ exiting' = TRUE
                /\ exitAt' = "no_output"
           ELSE /\ printed' = printed \o shown
                /\ UNCHANGED <<exiting, exitAt>>
    /\ pc' = "finally"
    /\ UNCHANGED <<env, host, ssh_params, today_date, formatted_date,
                   log_filename, yesterday, today, grep_command, ssh, output,
                   errors, idx, last_repo, last_resource, resources,
                   email_subject, email_body, connects, execs>>

\* the client left as it is
Closed_Skipped(client) == client

\* ssh.close()
Closed(client) == "closed"

\* lines 85-86: runs on every way out of the try block; with `ssh` unbound
\* the close raises NameError, which nothing catches
Finally ==
    /\ pc = "finally"
    /\ IF ssh = "unbound"
       THEN /\ exitAt' = "NameError"
            /\ pc' = "done"
            /\ UNCHANGED ssh
       ELSE /\ ssh' = Closed(ssh)
            /\ pc' = IF exiting THEN "done" ELSE "begin_scan"
            /\ UNCHANGED exitAt
    /\ UNCHANGED <<env, host, ssh_params, today_date, formatted_date,
                   log_filename, yesterday, today, grep_command, output,
                   errors, exiting, idx, last_repo, last_resource, resources,
                   email_subject, email_body, printed, connects, execs>>

\* lines 89-93
BeginScan ==
    /\ pc = "begin_scan"
    /\ resources' = <<>>
    /\ last_repo' = None
    /\ last_resource' = None
    /\ idx' = 1
    /\ pc' = "scan"
    /\ UNCHANGED <<env, host, ssh_params, today_date, formatted_date,
                   log_filename, yesterday, today, grep_command, ssh, output,
                   errors, exiting, email_subject, email_body, printed,
                   connects, execs, exitAt>>

\* the remembered id kept after an error line
AfterAppend_Keep(id) == id

\* what lines 106-113 leave in a remembered id after an error line
AfterAppend(id) == None

\* lines 93-113, one iteration
ScanLine ==
    /\ pc = "scan"
    /\ idx <= Len(output)
    /\ LET line == output[idx]
           repo == RepoAfterMatch(line, last_repo)
           res  == ResourceAfterMatch(line, last_resource)
       IN  IF IsErrorLine(line) /\ Remembered(repo, res)
           THEN /\ resources' = Append(resources, Resource(repo, res))
                /\ last_repo' = AfterAppend(repo)
                /\ last_resource' = AfterAppend(res)
           ELSE /\ resources' = resources
                /\ last_repo' = repo
                /\ last_resource' = res
    /\ idx' = idx + 1
    /\ UNCHANGED <<pc, env, host, ssh_params, today_date, formatted_date,
                   log_filename, yesterday, today, grep_command, ssh, output,
                   errors, exiting, email_subject, email_body, printed,
                   connects, execs, exitAt>>

\* the list kept as scanned, duplicates included
Deduplicated_Kept(list) == {list}

\* line 116: the distinct records, in the iteration order of the set
Deduplicated(list) == Orderings(Range(list))

\* lines 116-120, after the loop
RemoveDuplicates ==
    /\ pc = "scan"
    /\ idx > Len(output)
    /\ \E distinct \in Deduplicated(resources) :
          /\ resources' = distinct
          /\ IF Not(distinct)
             THEN /\ printed' = Append(printed, NoErrorsMsg)
                  /\ pc' = "done"
                  /\ exitAt' = "no_records"
             ELSE /\ pc' = "render"
                  /\ UNCHANGED <<printed, exitAt>>
    /\ UNCHANGED <<env, host, ssh_params, today_date, formatted_date,
                   log_filename, yesterday, today, grep_command, ssh, output,
                   errors, exiting, idx, last_repo, last_resource,
                   email_subject, email_body, connects, execs>>

\* lines 123-140
Render ==
    /\ pc = "render"
    /\ email_subject' = "ArchivesSpace Validation Errors :: " \o formatted_date
    /\ email_body' = EmailHeader \o UrlLines(resources)
    /\ pc' = "print"
    /\ UNCHANGED <<env, host, ssh_params, today_date, formatted_date,
                   log_filename, yesterday, today, grep_command, ssh, output,
                   errors, exiting, idx, last_repo, last_resource, resources,
                   printed, connects, execs, exitAt>>

\* lines 143-147; the body ends with a newline, so printing it leaves an
\* empty line after the last URL
PrintDraft ==
    /\ pc = "print"
    /\ printed' = printed \o <<"", PreviewBanner, email_subject>> \o email_body
                      \o <<"">> \o <<"", "---">> \o <<"">>
    /\ pc' = "done"
    /\ exitAt' = "end"
    /\ UNCHANGED <<env, host, ssh_params, today_date, formatted_date,
                   log_filename, yesterday, today, grep_command, ssh, output,
                   errors, exiting, idx, last_repo, last_resource, resources,
                   email_subject, email_body, connects, execs>>

-----------------------------------------------------------------------------
(* The whole script, on short retrieved texts.                             *)

RunDates == {<<2024, 3, 11>>}

Init == Start(RunDates)

Next ==
    \/ CheckHost
    \/ ReadSSHConfig
    \/ Prompt(RunInputs)
    \/ DeriveWindow
    \/ BuildGrep
    \/ CreateClient
    \/ Connect
    \/ ExecCommand(Texts(MaxRunLines))
    \/ Report
    \/ Finally
    \/ BeginScan
    \/ ScanLine
    \/ RemoveDuplicates
    \/ Render
    \/ PrintDraft

Spec == Init /\ [][Next]_vars

-----------------------------------------------------------------------------
(* The scan, duplicate removal and rendering on every retrieved text of up *)
(* to MaxLines lines, from the state in which a run leaves the SSH block.  *)

ScanEnv == [EAD_SSH_HOST |-> "ead.example.org", EAD_SERVER |-> Unset]

AfterSSH(dates, inputs, texts) ==
    /\ pc = "begin_scan"
    /\ env = ScanEnv
    /\ host = HostOf(ScanEnv)
    /\ ssh_params = [hostname |-> HostOf(ScanEnv), username |-> Unset]
    /\ today_date \in dates
    /\ formatted_date = strftime_long(today_date)
    /\ log_filename \in {IF u # NoInput THEN u ELSE default_log_filename(today_date) :
                            u \in inputs}
    /\ yesterday = strftime_ymd(MinusOneDay(log_filename.digits))
    /\ today = strftime_ymd(log_filename.digits)
    /\ grep_command = GrepCommand(yesterday, today, log_filename)
    /\ ssh = "closed"
    /\ output \in texts \ {<<>>}
    /\ errors = ""
    /\ exiting = FALSE
    /\ idx = 0
    /\ last_repo = None
    /\ last_resource = None
    /\ resources = <<>>
    /\ email_subject = ""
    /\ email_body = <<>>
    /\ printed = <<"", RetrievedBanner>>
    /\ connects = 1
    /\ execs = 1
    /\ exitAt = "running"

InitScan == AfterSSH(RunDates, {NoInput}, Texts(MaxLines))

NextScan ==
    \/ BeginScan
    \/ ScanLine
    \/ RemoveDuplicates
    \/ Render
    \/ PrintDraft

SpecScan == InitScan /\ [][NextScan]_vars

-----------------------------------------------------------------------------
(* The derivation of the date window on every filename date of a few       *)
(* years, well-formed or not, from the state in which the prompt appears.  *)

Years == {1900, 2000, 2023, 2024}

DateInputs ==
    {NoInput, FileName("exporter_app.out", NoDate)}
        \cup {FileName("exporter_app.out-", <<y, m, d>>) :
                 y \in Years, m \in 0..13, d \in 0..32}

DateDates == {<<2024, 3, 11>>, <<2024, 1, 1>>}

AtPrompt(dates) ==
    /\ pc = "prompt"
    /\ env = ScanEnv
    /\ host = HostOf(ScanEnv)
    /\ ssh_params = [hostname |-> HostOf(ScanEnv), username |-> Unset]
    /\ today_date \in dates
    /\ formatted_date = ""
    /\ log_filename = NoInput
    /\ yesterday = ""
    /\ today = ""
    /\ grep_command = ""
    /\ ssh = "unbound"
    /\ output = <<>>
    /\ errors = ""
    /\ exiting = FALSE
    /\ idx = 0
    /\ last_repo = None
    /\ last_resource = None
    /\ resources = <<>>
    /\ email_subject = ""
    /\ email_body = <<>>
    /\ printed = <<>>
    /\ connects = 0
    /\ execs = 0
    /\ exitAt = "running"

InitDate == AtPrompt(DateDates)

NextDate ==
    \/ Prompt(DateInputs)
    \/ DeriveWindow
    \/ BuildGrep

SpecDate == InitDate /\ [][NextDate]_vars

-----------------------------------------------------------------------------
(* Vocabulary of the properties, stated on the retrieved text itself.      *)

Markers == {"XML cleaning failed", "SolrIndexerError", "Validation error"}

\* the line contains "ERROR" and one of the three markers
Recognized(line) == "ERROR" \in line.words /\ line.words \cap Markers # {}

\* the line matches the resource-path pattern somewhere
HasPath(line) == Len(line.uris) > 0

\* the pairs the line matches the resource-path pattern with
PathsOf(line) == {line.uris[k] : k \in 1..Len(line.uris)}

Record(p) == [RepositoryID |-> p[1], ResourceID |-> p[2]]

UrlOf(p) ==
    "https://archives.yale.edu/repositories/" \o ToString(p[1]) \o "/resources/"
        \o ToString(p[2])

Count(list, x) == Cardinality({k \in 1..Len(list) : list[k] = x})

Position(list, x) == CHOOSE k \in 1..Len(list) : list[k] = x

\* the scan is over and the duplicates are removed
Deduped == pc \in {"render", "print"} \/ (pc = "done" /\ exitAt \in {"end", "no_records"})

\* the email draft has been printed
Drafted == pc = "done" /\ exitAt = "end"

\* the records in the order the scan meets them, duplicates included
RECURSIVE Encountered(_, _)
Encountered(text, seen) ==
    IF text = <<>> THEN <<>>
    ELSE LET line == Head(text)
             now  == IF HasPath(line) THEN <<line.uris[1]>> ELSE seen
         IN  IF Recognized(line) /\ now # <<>>
             THEN <<Record(now[1])>> \o Encountered(Tail(text), <<>>)
             ELSE Encountered(Tail(text), now)

FirstMet(text, p) == Position(Encountered(text, <<>>), Record(p))

-----------------------------------------------------------------------------
(* C1 as stated: whenever a line matching the path of (r, s) is            *)
(* immediately followed by a recognized error line, the deduplicated       *)
(* record list holds (r, s) exactly once and the printed body lists its    *)
(* URL exactly once.                                                       *)
C1_AnyPathLineThenError ==
    Deduped =>
        \A i \in 1..(Len(output) - 1) : \A p \in PathsOf(output[i]) :
            Recognized(output[i + 1]) =>
                /\ Count(resources, Record(p)) = 1
                /\ Drafted => /\ Count(email_body, UrlOf(p)) = 1
                              /\ Count(printed, UrlOf(p)) = 1

(* C1 amended: whenever a line whose first path match is (r, s) is          *)
(* immediately followed by a recognized error line that has no path match  *)
(* of its own, or whose first match is (r, s) too, the deduplicated record *)
(* list holds (r, s) exactly once, however often the pattern or the pair   *)
(* recurs, and the printed body lists its URL exactly once.                *)
C1_FirstPathThenError ==
    Deduped =>
        \A i \in 1..(Len(output) - 1) :
            (/\ HasPath(output[i])
             /\ Recognized(output[i + 1])
             /\ (HasPath(output[i + 1]) => output[i + 1].uris[1] = output[i].uris[1]))
            => LET p == output[i].uris[1]
               IN  /\ Count(resources, Record(p)) = 1
                   /\ Drafted => /\ Count(email_body, UrlOf(p)) = 1
                                 /\ Count(printed, UrlOf(p)) = 1

\* a draft printed for a text in which the pair is met by two error lines:
\* once on a line of its own path, once through the two-line pattern
C1_Witness ==
    /\ Drafted
    /\ \E i \in 1..(Len(output) - 1), k \in 1..Len(output) :
          /\ HasPath(output[i]) /\ ~Recognized(output[i])
          /\ Recognized(output[i + 1]) /\ ~HasPath(output[i + 1])
          /\ k # i /\ k # i + 1
          /\ HasPath(output[k]) /\ Recognized(output[k])
          /\ output[k].uris[1] = output[i].uris[1]
          /\ Count(Encountered(output, <<>>), Record(output[i].uris[1])) = 2
          /\ Count(email_body, UrlOf(output[i].uris[1])) = 1

(* C2: the body lists the URLs of the distinct records in the order in     *)
(* which the scan first met the records; when (2,100) is met before        *)
(* (2,101), its URL is on an earlier line.                                 *)
C2_OrderEncountered ==
    Drafted =>
        \A p, q \in Paths :
            (/\ Count(resources, Record(p)) > 0
             /\ Count(resources, Record(q)) > 0
             /\ FirstMet(output, p) < FirstMet(output, q))
            => /\ Count(email_body, UrlOf(p)) > 0
               /\ Count(email_body, UrlOf(q)) > 0
               /\ Position(email_body, UrlOf(p)) < Position(email_body, UrlOf(q))

\* the scan is at a line: the next step processes output[idx]
AtLine == pc = "scan" /\ idx <= Len(output)

(* C3: a record is appended only while the scan processes a line holding   *)
(* "ERROR" and a recognized marker; processing any other line leaves the   *)
(* record list as it was, and a text without such a line yields no record. *)
C3_OnlyErrorLinesAppend ==
    /\ [][/\ Len(resources') > Len(resources) => AtLine /\ Recognized(output[idx])
          /\ (AtLine /\ ~Recognized(output[idx])) => resources' = resources]_vars
    /\ []((\A k \in 1..Len(output) : ~Recognized(output[k])) => resources = <<>>)

\* the scan has finished a text that carries a path and then a marker
\* without "ERROR", and holds no record
C3_Witness ==
    /\ pc = "scan" /\ idx > Len(output)
    /\ resources = <<>>
    /\ \E i, k \in 1..Len(output) :
          /\ i <= k
          /\ HasPath(output[i])
          /\ output[k].words \cap Markers # {}
          /\ ~Recognized(output[k])

(* C4 as stated: every record comes from a path line that is itself a      *)
(* recognized error line or is immediately followed by one.                *)
C4_AdjacentOnly ==
    \A k \in 1..Len(resources) :
        \E i \in 1..Len(output) :
            /\ HasPath(output[i])
            /\ Record(output[i].uris[1]) = resources[k]
            /\ \/ Recognized(output[i])
               \/ i < Len(output) /\ Recognized(output[i + 1])

(* C4 amended: every record comes from the first path match of a line i    *)
(* and a recognized error line j at or after it, with no path match on the *)
(* lines after i up to j and no recognized error line from i up to j - 1;  *)
(* lines carrying neither may lie between the two.                         *)
C4_LastPathBeforeError ==
    \A k \in 1..Len(resources) :
        \E i \in 1..Len(output) : \E j \in i..Len(output) :
            /\ HasPath(output[i])
            /\ Record(output[i].uris[1]) = resources[k]
            /\ Recognized(output[j])
            /\ \A m \in (i + 1)..j : ~HasPath(output[m])
            /\ \A m \in i..(j - 1) : ~Recognized(output[m])

\* a record whose path line is separated from its error line by another line
C4_Witness ==
    /\ Deduped
    /\ Len(output) = 3
    /\ HasPath(output[1]) /\ ~Recognized(output[1])
    /\ ~HasPath(output[2]) /\ ~Recognized(output[2])
    /\ ~HasPath(output[3]) /\ Recognized(output[3])
    /\ resources = <<Record(output[1].uris[1])>>

(* C8: processing a line that matches neither the path pattern nor a       *)
(* recognized error marker leaves the remembered repository id, the        *)
(* remembered resource id and the record list unchanged, prints nothing    *)
(* and moves the scan on to the next line.                                 *)
C8_OtherLinesSkipped ==
    [][(AtLine /\ ~HasPath(output[idx]) /\ ~Recognized(output[idx]))
          => /\ last_repo' = last_repo
             /\ last_resource' = last_resource
             /\ resources' = resources
             /\ printed' = printed
             /\ pc' = "scan"
             /\ idx' = idx + 1]_vars

\* such a line has just been processed while a path was remembered
C8_Witness ==
    /\ pc = "scan" /\ idx > 1
    /\ ~HasPath(output[idx - 1]) /\ ~Recognized(output[idx - 1])
    /\ last_repo # None /\ last_resource # None

\* the lines scanned so far
Scanned == SubSeq(output, 1, idx - 1)

HowMany(text, P(_)) == Cardinality({k \in 1..Len(text) : P(text[k])})

(* C9: an error line that appends a record clears the remembered ids, so   *)
(* during the scan the number of records appended never exceeds the number *)
(* of path lines nor the number of recognized error lines scanned so far.  *)
C9_OneRecordPerPathLine ==
    /\ [][(AtLine /\ Len(resources') > Len(resources))
             => last_repo' = None /\ last_resource' = None]_vars
    /\ [](pc = "scan" => /\ Len(resources) <= HowMany(Scanned, HasPath)
                         /\ Len(resources) <= HowMany(Scanned, Recognized))

\* two recognized error lines scanned after a single path line: one record
C9_Witness ==
    /\ pc = "scan" /\ idx > Len(output)
    /\ HowMany(Scanned, HasPath) = 1
    /\ HowMany(Scanned, Recognized) = 2
    /\ Len(resources) = 1

-----------------------------------------------------------------------------
\* the remote command returned and the run ended without an uncaught error
Retrieved == pc = "done" /\ execs = 1 /\ exitAt \in {"no_output", "no_records", "end"}

\* some recognized error line has a path line at or before it
Qualifying(text) ==
    \E i \in 1..Len(text) : \E j \in i..Len(text) :
        HasPath(text[i]) /\ Recognized(text[j])

Last(list) == list[Len(list)]

(* C5: when the remote command returns nothing, or returns lines from      *)
(* which the scan makes no record, the run prints "No repository errors    *)
(* found." as its last output and never prints the email preview.          *)
C5_NothingFound ==
    /\ []((Retrieved /\ ~Qualifying(output))
             => /\ printed # <<>>
                /\ Last(printed) = NoErrorsMsg
                /\ Count(printed, NoErrorsMsg) = 1
                /\ Count(printed, PreviewBanner) = 0
                /\ email_subject = "" /\ email_body = <<>>)
    /\ [][Count(printed, NoErrorsMsg) > 0 => printed' = printed]_vars

\* a run ended on a non-empty text that yields no record
C5_Witness ==
    /\ Retrieved
    /\ output # <<>>
    /\ ~Qualifying(output)
    /\ exitAt = "no_records"
    /\ Last(printed) = NoErrorsMsg

(* C6: with neither EAD_SSH_HOST nor EAD_SERVER set the run prints its     *)
(* message and stops before the prompt and before any connection; when the *)
(* connection or the command fails the run prints the captured error and   *)
(* stops; the connection is attempted at most once, the command is run at  *)
(* most once, and no preview follows a failure.                            *)
C6_FailuresAreTerminal ==
    /\ []((env.EAD_SSH_HOST = Unset /\ env.EAD_SERVER = Unset /\ pc # "check_host")
             => /\ pc = "done" /\ exitAt = "no_host"
                /\ printed = <<NoHostMsg>>
                /\ log_filename = NoInput /\ formatted_date = ""
                /\ ssh = "unbound" /\ connects = 0 /\ execs = 0)
    /\ [](exitAt = "ssh_failed"
             => /\ pc \in {"finally", "done"}
                /\ \E e \in Failures : Last(printed) = SSHFailedMsg \o e
                /\ Count(printed, PreviewBanner) = 0
                /\ Count(printed, RetrievedBanner) = 0)
    /\ [](connects <= 1 /\ execs <= 1)
    /\ [][(exitAt \in {"no_host", "ssh_failed"})
             => (/\ printed' = printed
                 /\ connects' = connects
                 /\ execs' = execs
                 /\ exitAt' \in {exitAt, "NameError"}
                 /\ pc' = "done")]_vars

\* a run that ended on a failed connection, after its single attempt
C6_Witness ==
    /\ pc = "done" /\ exitAt = "ssh_failed"
    /\ connects = 1 /\ execs = 0
    /\ Len(printed) >= 1

(* C10: once the SSH client exists, every way out of the SSH block closes  *)
(* it, and it is closed before any line is scanned and before the email    *)
(* preview is printed.                                                     *)
C10_ClientClosed ==
    /\ (pc \in {"begin_scan", "scan", "render", "print"}) => ssh = "closed"
    /\ (pc = "done" /\ connects >= 1) => ssh = "closed"
    /\ (pc = "done" /\ ssh # "unbound") => ssh = "closed"
    /\ (idx > 0 \/ Count(printed, PreviewBanner) > 0) => ssh = "closed"

\* a run that left the SSH block by the exit on empty output, client closed
C10_Witness ==
    /\ pc = "done" /\ exitAt = "no_output"
    /\ connects = 1 /\ execs = 1
    /\ ssh = "closed"

-----------------------------------------------------------------------------
(* The calendar, stated without day numbers.                               *)

LeapYear(y) == (y % 4 = 0 /\ y % 100 # 0) \/ y % 400 = 0

LastDay(y, m) ==
    IF m \in {4, 6, 9, 11} THEN 30
    ELSE IF m = 2 THEN (IF LeapYear(y) THEN 29 ELSE 28)
    ELSE 31

CalendarDay(D) == D[1] >= 1 /\ D[2] \in 1..12 /\ D[3] \in 1..LastDay(D[1], D[2])

DayAfter(D) ==
    IF D[3] < LastDay(D[1], D[2]) THEN <<D[1], D[2], D[3] + 1>>
    ELSE IF D[2] < 12 THEN <<D[1], D[2] + 1, 1>>
    ELSE <<D[1] + 1, 1, 1>>

\* the day whose day after is D: it lies in the month of D or the month before
DayBefore(D) ==
    CHOOSE P \in {<<y, m, d>> : y \in {D[1] - 1, D[1]},
                               m \in {D[2] - 1, D[2], 12} \cap 1..12,
                               d \in {D[3] - 1, 28, 29, 30, 31} \cap 1..31} :
        CalendarDay(P) /\ DayAfter(P) = D

Digit(n) == ToString(n % 10)

Written(D) ==
    Digit(D[1] \div 1000) \o Digit(D[1] \div 100) \o Digit(D[1] \div 10) \o Digit(D[1])
        \o "-" \o Digit(D[2] \div 10) \o Digit(D[2])
        \o "-" \o Digit(D[3] \div 10) \o Digit(D[3])

Hours == {"00", "01", "02", "03", "04", "05", "06", "07", "12", "23"}

\* timestamps of remote lines on the given days
Stamps(days) == [date : {Written(day) : day \in days}, hour : Hours]

(* C7: for a filename holding the date D, the remote filter selects        *)
(* exactly the lines of the calendar day before D and the lines of D whose *)
(* hour is T00 to T06; for exporter_app.out-2024-03-10 the window is       *)
(* 2024-03-09 and 2024-03-10T00 to 2024-03-10T06.                          *)
C7_DateWindow ==
    (/\ pc \notin {"prompt", "derive"}
     /\ date_match(log_filename)
     /\ CalendarDay(log_filename.digits))
    => LET D == log_filename.digits
           P == DayBefore(D)
           before == Written(P)
           on == Written(D)
       IN  /\ pc \in {"build", "create"}
           /\ yesterday = before
           /\ today = on
           /\ \A stamp \in Stamps({DayBefore(P), P, D, DayAfter(D)}) :
                 Selects(yesterday, today, stamp)
                     <=> \/ stamp.date = before
                         \/ /\ stamp.date = on
                            /\ stamp.hour \in {"00", "01", "02", "03", "04", "05", "06"}
           /\ pc = "create" =>
                 grep_command = "grep -E \"" \o before \o "|" \o on \o "T0[0-6]\" "
                     \o "/usr/local/src/archivesspace_export_service/exporter_app/logs/"
                     \o log_filename.stem \o on
           /\ (D = <<2024, 3, 10>> /\ pc = "create")
                 => /\ yesterday = "2024-03-09"
                    /\ today = "2024-03-10"
                    /\ grep_command = "grep -E \"2024-03-09|2024-03-10T0[0-6]\" /usr/local/src/archivesspace_export_service/exporter_app/logs/exporter_app.out-2024-03-10"

\* the command built for a filename dated the first of March of a leap year
C7_Witness ==
    /\ pc = "create"
    /\ log_filename.digits = <<2024, 3, 1>>
    /\ yesterday = "2024-02-29"
    /\ today = "2024-03-01"

====
